---- MODULE Spec2Model ----
(***************************************************************************)
(* The authenticated HTTP request pipeline of the gop2b client: the       *)
(* endpoint methods PostBalances and PostCurrencyBalance, the transport   *)
(* functions sendPost, sendGet and sendRequest, mergeHeaders and          *)
(* checkHTTPStatus.                                                        *)
(*                                                                         *)
(* Go strings and byte slices are sequences of byte values (ASCII codes); *)
(* the empty string is << >>.  HTTP header keys and URL segments are kept *)
(* as TLA+ strings, since the code only compares and canonicalises them.  *)
(***************************************************************************)
EXTENDS Integers, Sequences, FiniteSets, TLC

\* ------------------------------------------------------------------ bounds

\* The wall clock (milliseconds) runs from FirstNow to MaxNow.
FirstNow == 9
MaxNow == 10
\* The caller supplies at most MaxHdrs headers to sendPost / sendGet.
MaxHdrs == 2
\* Request bodies handed to sendPost directly have at most MaxBodyLen bytes.
MaxBodyLen == 2
\* checkHTTPStatus is given at most MaxExpected expected codes.
MaxExpected == 3
\* The outgoing nonces of the last MaxLog PostCurrencyBalance calls are kept.
MaxLog == 2

\* ----------------------------------------------------------------- strings

\* "/api/v2/account/balance"
ApiPathBalance == <<47, 97, 112, 105, 47, 118, 50, 47, 97, 99, 99, 111, 117, 110, 116, 47, 98, 97, 108, 97, 110, 99, 101>>
\* `{"request":"`
JsonOpenRequest == <<123, 34, 114, 101, 113, 117, 101, 115, 116, 34, 58, 34>>
\* `","nonce":"`
JsonNonceKey == <<34, 44, 34, 110, 111, 110, 99, 101, 34, 58, 34>>
\* `","currency":"`
JsonCurrencyKey == <<34, 44, 34, 99, 117, 114, 114, 101, 110, 99, 121, 34, 58, 34>>
\* `"}`
JsonClose == <<34, 125>>
\* "http response status != "
StatusErrPrefix == <<104, 116, 116, 112, 32, 114, 101, 115, 112, 111, 110, 115, 101, 32, 115, 116, 97, 116, 117, 115, 32, 33, 61, 32>>
\* ", got "
StatusErrGot == <<44, 32, 103, 111, 116, 32>>
\* ": " and "\n" of the format "%s: %s\n"
WrapSep == <<58, 32>>
WrapEnd == <<10>>
\* "application/json"
ApplicationJson == <<97, 112, 112, 108, 105, 99, 97, 116, 105, 111, 110, 47, 106, 115, 111, 110>>
\* "error creating POST request, " and "error creating GET request, "
ErrCreatePost == <<101, 114, 114, 111, 114, 32, 99, 114, 101, 97, 116, 105, 110, 103, 32, 80, 79, 83, 84, 32, 114, 101, 113, 117, 101, 115, 116, 44, 32>>
ErrCreateGet == <<101, 114, 114, 111, 114, 32, 99, 114, 101, 97, 116, 105, 110, 103, 32, 71, 69, 84, 32, 114, 101, 113, 117, 101, 115, 116, 44, 32>>

\* Texts of the errors the libraries return (net/url, net/http, io,
\* encoding/json); only their being errors matters to the code.
\* "parse error", "dial tcp", "unexpected EOF", "invalid character", "json: error"
ErrParse == <<112, 97, 114, 115, 101, 32, 101, 114, 114, 111, 114>>
ErrNet == <<100, 105, 97, 108, 32, 116, 99, 112>>
ErrRead == <<117, 110, 101, 120, 112, 101, 99, 116, 101, 100, 32, 69, 79, 70>>
ErrJson == <<105, 110, 118, 97, 108, 105, 100, 32, 99, 104, 97, 114, 97, 99, 116, 101, 114>>
ErrMarshal == <<106, 115, 111, 110, 58, 32, 101, 114, 114, 111, 114>>

\* Bodies a server answers with: `{"success":true}`, `{"message":"bad nonce"}`, `oops`.
BodyOk == <<123, 34, 115, 117, 99, 99, 101, 115, 115, 34, 58, 116, 114, 117, 101, 125>>
BodyBadNonce == <<123, 34, 109, 101, 115, 115, 97, 103, 101, 34, 58, 34, 98, 97, 100, 32, 110, 111, 110, 99, 101, 34, 125>>
BodyText == <<111, 111, 112, 115>>
\* "bad nonce"
BadNonce == <<98, 97, 100, 32, 110, 111, 110, 99, 101>>

\* Contains(s, t): t occurs in s as a contiguous substring.
Contains(s, t) ==
    \E i \in 0..(Len(s) - Len(t)) : SubSeq(s, i + 1, i + Len(t)) = t

\* ---------------------------------------------------------------- encoders

RECURSIVE FormatInt(_)
\* strconv.FormatInt(n, 10) and the %d verb, for n >= 0.
FormatInt(n) ==
    IF n < 10 THEN <<48 + n>> ELSE Append(FormatInt(n \div 10), 48 + (n % 10))

RECURSIVE ParseInt(_)
\* The number a decimal string denotes (the inverse of FormatInt).
ParseInt(s) ==
    IF Len(s) = 0 THEN 0
    ELSE 10 * ParseInt(SubSeq(s, 1, Len(s) - 1)) + (s[Len(s)] - 48)

\* The character of the standard base64 alphabet for a 6-bit value.
B64Char(i) ==
    IF i < 26 THEN 65 + i
    ELSE IF i < 52 THEN 71 + i
    ELSE IF i < 62 THEN i - 4
    ELSE IF i = 62 THEN 43 ELSE 47

\* b[i], or 0 past the end (the bits base64 pads a last group with).
ByteAt(b, i) == IF i <= Len(b) THEN b[i] ELSE 0

\* base64.StdEncoding.EncodeToString: each group of three bytes becomes four
\* characters of six bits each; a last group of one or two bytes is padded
\* with '='.  j is the position in the output, g its group.
Base64(b) ==
    [j \in 1..(4 * ((Len(b) + 2) \div 3)) |->
        LET g == (j - 1) \div 4
            b1 == ByteAt(b, 3 * g + 1)
            b2 == ByteAt(b, 3 * g + 2)
            b3 == ByteAt(b, 3 * g + 3)
        IN CASE (j - 1) % 4 = 0 -> B64Char(b1 \div 4)
             [] (j - 1) % 4 = 1 -> B64Char((b1 % 4) * 16 + (b2 \div 16))
             [] (j - 1) % 4 = 2 ->
                    IF 3 * g + 2 > Len(b) THEN 61
                    ELSE B64Char((b2 % 16) * 4 + (b3 \div 64))
             [] OTHER -> IF 3 * g + 3 > Len(b) THEN 61 ELSE B64Char(b3 % 64)]

HexDigit(d) == IF d < 10 THEN 48 + d ELSE 87 + d

\* hex.EncodeToString: two lower-case hexadecimal digits per byte.
Hex(b) ==
    [i \in 1..(2 * Len(b)) |->
        IF i % 2 = 1 THEN HexDigit(b[(i + 1) \div 2] \div 16)
        ELSE HexDigit(b[i \div 2] % 16)]

\* hmac.New(sha512.New, key) / Write(msg) / Sum(nil).  The MAC is modelled as
\* an ideal one: a collision-free function of (key, msg), here the
\* length-prefixed key followed by the message.
Hmac(key, msg) == <<Len(key)>> \o key \o msg

\* ------------------------------------------------------------ values

\* A Go error value: nil, or an error with a text.
NoErr == [isNil |-> TRUE, text |-> << >>]
Err(t) == [isNil |-> FALSE, text |-> t]

\* A *response: nil, the empty &response{}, or the fields copied from the
\* http.Response.  Body is the content of the unread stream and readOk says
\* whether io.ReadAll of it will succeed.
NilResp == [isNil |-> TRUE, StatusCode |-> 0, Body |-> << >>, readOk |-> TRUE]
EmptyResp == [isNil |-> FALSE, StatusCode |-> 0, Body |-> << >>, readOk |-> TRUE]
Resp(code, body, readOk) ==
    [isNil |-> FALSE, StatusCode |-> code, Body |-> body, readOk |-> readOk]

\* A map[string]string: nil, or a function from its keys to their values.
EmptyMap == [k \in {} |-> << >>]
NilMap == [isNil |-> TRUE, m |-> EmptyMap]
Map(f) == [isNil |-> FALSE, m |-> f]
\* m[k] of Go: the zero value "" for an absent key (and for a nil map).
Get(m, k) == IF k \in DOMAIN m THEN m[k] ELSE << >>
\* m[k] = v
Put(m, k, v) == [x \in DOMAIN m \cup {k} |-> IF x = k THEN v ELSE m[x]]

HeaderXTxcAPIKey == "X-TXC-APIKEY"
HeaderXTxcPayload == "X-TXC-PAYLOAD"
HeaderXTxcSignature == "X-TXC-SIGNATURE"
\* The key sendRequest uses for the content type.
HeaderContentType == "Content-type"

\* The keys that occur in header maps: the four the transport computes, the
\* canonical spelling of the content type and a header of the caller's own.
KeySeq ==
    <<HeaderXTxcAPIKey, HeaderXTxcPayload, HeaderXTxcSignature,
      HeaderContentType, "Content-Type", "X-Trace">>
HeaderKeys == {KeySeq[i] : i \in 1..Len(KeySeq)}

\* textproto.CanonicalMIMEHeaderKey, which http.Header.Add applies to the key.
Canonical(k) ==
    CASE k = "X-TXC-APIKEY" -> "X-Txc-Apikey"
      [] k = "X-TXC-PAYLOAD" -> "X-Txc-Payload"
      [] k = "X-TXC-SIGNATURE" -> "X-Txc-Signature"
      [] k = "Content-type" -> "Content-Type"
      [] OTHER -> k

\* Go leaves the iteration order of a map unspecified.  Header.Add orders
\* values only within one canonical name, and Content-type / Content-Type are
\* the only keys of KeySeq sharing one, so these two orders produce every
\* request a `range` over a header map can produce.
KeyOrders == {KeySeq, [i \in 1..Len(KeySeq) |-> KeySeq[Len(KeySeq) + 1 - i]]}

\* request.Header.Add(k, v): append v to the values of k's canonical name.
HeaderAdd(h, k, v) ==
    LET c == Canonical(k) IN
    [n \in DOMAIN h \cup {c} |->
        IF n = c THEN (IF c \in DOMAIN h THEN Append(h[c], v) ELSE <<v>>) ELSE h[n]]

RECURSIVE AddAll(_, _, _, _)
\* for k, v := range m { request.Header.Add(k, v) }, visiting the keys in the
\* order ord, from position i on.
AddAll(h, m, ord, i) ==
    IF i > Len(ord) THEN h
    ELSE AddAll(IF ord[i] \in DOMAIN m THEN HeaderAdd(h, ord[i], m[ord[i]]) ELSE h,
                m, ord, i + 1)

\* ------------------------------------------------------------ http.go

RECURSIVE StatusMatches(_, _, _)
\* The loop of checkHTTPStatus from position i on: some expected code equals
\* the response's.
StatusMatches(code, expected, i) ==
    IF i > Len(expected) THEN FALSE
    ELSE IF code = expected[i] THEN TRUE
    ELSE StatusMatches(code, expected, i + 1)

RECURSIVE FormatInts(_, _)
\* The %+v verb on a []int, from position i on: "[200 302]".
FormatInts(xs, i) ==
    IF i > Len(xs) THEN <<93>>
    ELSE (IF i = 1 THEN <<91>> ELSE <<32>>) \o FormatInt(xs[i]) \o FormatInts(xs, i + 1)

\* The %+v verb on a []int.
FormatIntSlice(xs) == IF Len(xs) = 0 THEN <<91, 93>> ELSE FormatInts(xs, 1)

\* A bug of checkHTTPStatus: only the first expected code is compared.
checkHTTPStatus_FirstOnly(resp, expected) ==
    IF Len(expected) > 0 /\ resp.StatusCode = expected[1] THEN NoErr
    ELSE Err(StatusErrPrefix \o FormatIntSlice(expected)
             \o StatusErrGot \o FormatInt(resp.StatusCode))

\* A bug of checkHTTPStatus: the comparison is >= instead of ==.
checkHTTPStatus_AtLeast(resp, expected) ==
    IF \E i \in 1..Len(expected) : resp.StatusCode >= expected[i] THEN NoErr
    ELSE Err(StatusErrPrefix \o FormatIntSlice(expected)
             \o StatusErrGot \o FormatInt(resp.StatusCode))

\* checkHTTPStatus(resp, expected...)
checkHTTPStatus(resp, expected) ==
    IF StatusMatches(resp.StatusCode, expected, 1) THEN NoErr
    ELSE Err(StatusErrPrefix \o FormatIntSlice(expected)
             \o StatusErrGot \o FormatInt(resp.StatusCode))

\* A bug of mergeHeaders: the second map's values overwrite the first's.
mergeHeaders_SecondWins(firstHeaders, secondHeaders) ==
    IF secondHeaders.isNil THEN firstHeaders
    ELSE IF firstHeaders.isNil THEN secondHeaders
    ELSE Map([k \in DOMAIN firstHeaders.m \cup DOMAIN secondHeaders.m |->
                IF k \in DOMAIN secondHeaders.m
                THEN secondHeaders.m[k] ELSE firstHeaders.m[k]])

\* mergeHeaders(firstHeaders, secondHeaders): the first map, with each entry of
\* the second whose key the first maps to "" (or does not hold).
mergeHeaders(firstHeaders, secondHeaders) ==
    IF secondHeaders.isNil THEN firstHeaders
    ELSE IF firstHeaders.isNil THEN secondHeaders
    ELSE Map([k \in DOMAIN firstHeaders.m \cup DOMAIN secondHeaders.m |->
                IF k \in DOMAIN secondHeaders.m /\ Get(firstHeaders.m, k) = << >>
                THEN secondHeaders.m[k] ELSE firstHeaders.m[k]])

\* The client a constructor returns: newClientWithURL always sets auth, so
\* hasAuth (c.auth != nil) is TRUE for every client the program builds.
newClientWithURL(url, apiKey, apiSecret) ==
    [url |-> url, hasAuth |-> TRUE, APIKey |-> apiKey, APISecret |-> apiSecret]

\* baseAPI, and a base URL that url.Parse rejects (newClientWithURL checks nothing).
baseAPI == "https://api.p2pb2b.com/api/v2"
BadURL == ":bad"
\* The target the server of the model names in the Location of a redirect.
LocationURL == <<"https://elsewhere.example", "/moved">>

\* A URL is the sequence of the segments fmt.Sprintf joins.
\* http.NewRequest fails when url.Parse rejects the URL.
NewRequestFails(url) == \E i \in 1..Len(url) : url[i] = BadURL

\* The *http.Request of http.NewRequest(method, url, body): no header yet.
NewRequest(method, url, body) ==
    [method |-> method, url |-> url, header |-> EmptyMap, body |-> body]

\* The statuses for which net/http consults CheckRedirect (given a Location).
RedirectCodes == {301, 302, 303, 307, 308}

\* What the server does with a request: the round trip fails, or it answers
\* with a status and a body, whose stream may break while it is read.
NetFailure == [answered |-> FALSE, status |-> 0, body |-> << >>, readOk |-> TRUE]
Answer(status, body, readOk) ==
    [answered |-> TRUE, status |-> status, body |-> body, readOk |-> readOk]

\* net/http's default policy (CheckRedirect == nil): follow the redirect.
CheckRedirect_Default == "follow"

\* The CheckRedirect of the client's http.Client: always http.ErrUseLastResponse.
CheckRedirect == "ErrUseLastResponse"

\* A bug of the round trip: a failed request is sent once more.
Do_Retry(request, srv) ==
    IF ~srv.answered THEN [wire |-> <<request, request>>, resp |-> NilResp, err |-> Err(ErrNet)]
    ELSE [wire |-> <<request>>, resp |-> Resp(srv.status, srv.body, srv.readOk),
          err |-> NoErr]

\* c.http.Do(request): the requests put on the wire, and the response or the
\* error.  With ErrUseLastResponse the first response is returned with its
\* body unread; otherwise a redirect is followed to its Location (a POST
\* answered 302 is repeated as a GET without body), whose server answers 200.
Do(request, srv) ==
    IF ~srv.answered THEN [wire |-> <<request>>, resp |-> NilResp, err |-> Err(ErrNet)]
    ELSE IF srv.status \in RedirectCodes /\ CheckRedirect # "ErrUseLastResponse" THEN
        [wire |-> <<request,
                    [request EXCEPT !.method = "GET", !.url = LocationURL, !.body = << >>]>>,
         resp |-> Resp(200, BodyOk, TRUE), err |-> NoErr]
    ELSE [wire |-> <<request>>, resp |-> Resp(srv.status, srv.body, srv.readOk),
          err |-> NoErr]

\* c.sendRequest(request, additionalHeaders).  ord1 and ord2 are the orders in
\* which the two `range` loops visit their maps.  headers is the map the
\* second loop adds: mergeHeaders returns (and has written into) the caller's
\* map when there is one.
sendRequest(c, request, additionalHeaders, ord1, ord2, srv) ==
    LET h1 == IF additionalHeaders.isNil THEN request.header
              ELSE AddAll(request.header, additionalHeaders.m, ord1, 1)
        t1 == Put(EmptyMap, HeaderContentType, ApplicationJson)
        thisHeaders == IF c.hasAuth THEN Put(t1, HeaderXTxcAPIKey, c.APIKey) ELSE t1
        headers == mergeHeaders(additionalHeaders, Map(thisHeaders))
        h2 == AddAll(h1, headers.m, ord2, 1)
        d == Do([request EXCEPT !.header = h2], srv)
    IN [wire |-> d.wire, resp |-> d.resp, err |-> d.err, headers |-> headers]

\* A bug of sendPost: the signature is computed over the raw body bytes.
AuthHeaders_RawBody(c, additionalHeaders, bodyBytes) ==
    LET m1 == Put(additionalHeaders, HeaderXTxcPayload, Base64(bodyBytes))
    IN IF c.hasAuth
       THEN Put(m1, HeaderXTxcSignature, Hex(Hmac(c.APISecret, bodyBytes)))
       ELSE m1

\* The header map after sendPost's lines 106-113: the payload is the base64
\* of the body and the signature the hex HMAC of that base64 string, both
\* written over whatever the map held.
AuthHeaders(c, additionalHeaders, bodyBytes) ==
    LET m1 == Put(additionalHeaders, HeaderXTxcPayload, Base64(bodyBytes))
    IN IF c.hasAuth
       THEN Put(m1, HeaderXTxcSignature, Hex(Hmac(c.APISecret, m1[HeaderXTxcPayload])))
       ELSE m1

\* c.sendPost(url, additionalHeaders, body).  bodyErr: io.ReadAll(body) fails.
sendPost(c, url, additionalHeaders, bodyBytes, bodyErr, ord1, ord2, srv) ==
    IF bodyErr THEN
        [wire |-> << >>, resp |-> NilResp, err |-> Err(ErrRead), headers |-> additionalHeaders]
    ELSE IF NewRequestFails(url) THEN
        [wire |-> << >>, resp |-> EmptyResp, err |-> Err(ErrCreatePost \o ErrParse),
         headers |-> additionalHeaders]
    ELSE
        sendRequest(c, NewRequest("POST", url, bodyBytes),
                    Map(AuthHeaders(c, additionalHeaders.m, bodyBytes)), ord1, ord2, srv)

\* A bug of sendGet: the payload and signature of an empty body are attached.
sendGet_Signed(c, url, additionalHeaders, ord1, ord2, srv) ==
    IF NewRequestFails(url) THEN
        [wire |-> << >>, resp |-> EmptyResp, err |-> Err(ErrCreateGet \o ErrParse),
         headers |-> additionalHeaders]
    ELSE
        sendRequest(c, NewRequest("GET", url, << >>),
                    Map(AuthHeaders(c, additionalHeaders.m, << >>)), ord1, ord2, srv)

\* c.sendGet(url, additionalHeaders)
sendGet(c, url, additionalHeaders, ord1, ord2, srv) ==
    IF NewRequestFails(url) THEN
        [wire |-> << >>, resp |-> EmptyResp, err |-> Err(ErrCreateGet \o ErrParse),
         headers |-> additionalHeaders]
    ELSE
        sendRequest(c, NewRequest("GET", url, << >>), additionalHeaders, ord1, ord2, srv)

\* ------------------------------------------------------ endpoint methods

\* http.StatusOK
StatusOK == 200

\* The path suffixes the endpoint methods join to c.url.
SuffixBalances == "/account/balances"
SuffixBalance == "/account/balance"

\* json.Marshal of an AccountBalancesRequest (request, nonce) or an
\* AccountCurrencyBalanceRequest (request, nonce, currency): the embedded
\* Request's fields come first.  The strings of the model hold no character
\* that JSON escapes.
Marshal(op, request) ==
    JsonOpenRequest \o request.request \o JsonNonceKey \o request.nonce
    \o (IF op = "PostCurrencyBalance" THEN JsonCurrencyKey \o request.currency ELSE << >>)
    \o JsonClose

\* json.Unmarshal of a response body into a typed response, for the bodies of
\* the model: BodyOk and BodyBadNonce are JSON objects, any other body is an
\* error.  Only the embedded Response envelope (success, message) is kept.
Unmarshal(body) ==
    [ok |-> body \in {BodyOk, BodyBadNonce},
     Success |-> body = BodyOk,
     Message |-> IF body = BodyBadNonce THEN BadNonce ELSE << >>]

\* The typed response an endpoint method returns: nil, or the decoded value.
NilResult == [isNil |-> TRUE, Success |-> FALSE, Message |-> << >>]
Result(u) == [isNil |-> FALSE, Success |-> u.Success, Message |-> u.Message]

\* What a finished endpoint call leaves behind: the struct as marshalled, the
\* clock at the call, the requests put on the wire, what the server did with
\* the first of them (NetFailure too when none was sent), the response the
\* method got, the stage it returned from, whether json.Unmarshal was called,
\* and the two return values.
Outcome(op, request, at, stage, wire, served, resp, decoded, result, err) ==
    [op |-> op, request |-> request, at |-> at, stage |-> stage, wire |-> wire,
     served |-> served, status |-> resp.StatusCode, respBody |-> resp.Body,
     decoded |-> decoded, result |-> result, err |-> err]

\* The body shared by PostBalances and PostCurrencyBalance from json.Marshal
\* on: marshal, sendPost with no extra headers, read the whole body, check the
\* status against 200, unmarshal.  marshalFails: json.Marshal returns an error.
PostFlow(c, op, suffix, request, at, marshalFails, ord1, ord2, srv) ==
    IF marshalFails THEN
        Outcome(op, request, at, "marshal", << >>, NetFailure, NilResp, FALSE,
                NilResult, Err(ErrMarshal))
    ELSE
    LET sp == sendPost(c, <<c.url, suffix>>, NilMap, Marshal(op, request),
                       FALSE, ord1, ord2, srv)
        served == IF sp.wire = << >> THEN NetFailure ELSE srv
        st == checkHTTPStatus(sp.resp, <<StatusOK>>)
        u == Unmarshal(sp.resp.Body)
    IN  IF ~sp.err.isNil THEN
            Outcome(op, request, at, "send", sp.wire, served, NilResp, FALSE,
                    NilResult, sp.err)
        ELSE IF ~sp.resp.readOk THEN
            Outcome(op, request, at, "read", sp.wire, served, sp.resp, FALSE,
                    NilResult, Err(ErrRead))
        ELSE IF ~st.isNil THEN
            Outcome(op, request, at, "status", sp.wire, served, sp.resp, FALSE,
                    NilResult, Err(st.text \o WrapSep \o sp.resp.Body \o WrapEnd))
        ELSE IF ~u.ok THEN
            Outcome(op, request, at, "decode", sp.wire, served, sp.resp, TRUE,
                    NilResult, Err(ErrJson))
        ELSE
            Outcome(op, request, at, "ok", sp.wire, served, sp.resp, TRUE,
                    Result(u), NoErr)

\* ------------------------------------------------------------------ state

VARIABLES
    c,          \* the client
    now,        \* the wall clock, in milliseconds
    balReq,     \* the caller's AccountBalancesRequest
    curReq,     \* the caller's AccountCurrencyBalanceRequest
    pc,         \* the caller: "idle", or "returned" from a call
    last,       \* the outcome of the endpoint call the caller returned from
    nonceLog,   \* the nonces of the last PostCurrencyBalance bodies sent
    tr,         \* the outcome of the sendPost / sendGet call returned from
    chk         \* the outcome of the checkHTTPStatus call returned from

vars == <<c, now, balReq, curReq, pc, last, nonceLog, tr, chk>>

\* No call has returned.
NoOutcome == Outcome("none", [request |-> << >>, nonce |-> << >>], 0, "none", << >>,
                     NetFailure, NilResp, FALSE, NilResult, NoErr)
NoTransport ==
    [op |-> "none", url |-> << >>, args |-> NilMap, body |-> << >>, wire |-> << >>,
     resp |-> NilResp, err |-> NoErr, headers |-> NilMap]
NoCheck == [called |-> FALSE, code |-> 0, expected |-> << >>, err |-> NoErr]

\* "BTC"
Currencies == {<<66, 84, 67>>}
\* What a caller may have written into a request's envelope: nothing, "7" as
\* nonce, the API path as request.
CallerNonces == {<< >>, <<55>>}
CallerPaths == {<< >>, ApiPathBalance}

\* What the server may do with a request.
ServerStatuses == {200, 302, 400}
ServerBodies == {BodyOk, BodyBadNonce, BodyText}
Servers ==
    {NetFailure} \cup
    {Answer(s, b, r) : s \in ServerStatuses, b \in ServerBodies, r \in BOOLEAN}

\* NewClient or newClientWithURL built the client, with the credentials "K"
\* and "S"; the caller's requests are zero values.
Init ==
    /\ c \in {newClientWithURL(u, <<75>>, <<83>>) : u \in {baseAPI, BadURL}}
    /\ now = FirstNow
    /\ balReq = [request |-> << >>, nonce |-> << >>]
    /\ curReq = [request |-> << >>, nonce |-> << >>, currency |-> << >>]
    /\ pc = "idle"
    /\ last = NoOutcome
    /\ nonceLog = << >>
    /\ tr = NoTransport
    /\ chk = NoCheck

\* Time passes.
Tick ==
    /\ now < MaxNow
    /\ now' = now + 1
    /\ UNCHANGED <<c, balReq, curReq, pc, last, nonceLog, tr, chk>>

\* The caller fills in its AccountBalancesRequest.
FillBalancesRequest ==
    /\ pc = "idle"
    /\ \E p \in CallerPaths, n \in CallerNonces :
          balReq' = [request |-> p, nonce |-> n]
    /\ UNCHANGED <<c, now, curReq, pc, last, nonceLog, tr, chk>>

\* The caller fills in its AccountCurrencyBalanceRequest.
FillCurrencyRequest ==
    /\ pc = "idle"
    /\ \E p \in CallerPaths, n \in CallerNonces, cur \in Currencies :
          curReq' = [request |-> p, nonce |-> n, currency |-> cur]
    /\ UNCHANGED <<c, now, balReq, pc, last, nonceLog, tr, chk>>

\* c.PostBalances(&balReq)
PostBalances ==
    /\ pc = "idle"
    /\ \E mf \in BOOLEAN, ord1 \in KeyOrders, ord2 \in KeyOrders, srv \in Servers :
          last' = PostFlow(c, "PostBalances", SuffixBalances, balReq, now,
                           mf, ord1, ord2, srv)
    /\ pc' = "returned"
    /\ UNCHANGED <<c, now, balReq, curReq, nonceLog, tr, chk>>

\* The log of outgoing nonces after one more body went out.
Logged(log, nonce) ==
    IF Len(log) < MaxLog THEN Append(log, nonce) ELSE Append(Tail(log), nonce)

\* c.PostCurrencyBalance(&curReq): the nonce and the path are written into
\* the caller's request, which is then marshalled and sent like PostBalances'.
PostCurrencyBalance ==
    /\ pc = "idle"
    /\ curReq' = [curReq EXCEPT !.nonce = FormatInt(now), !.request = ApiPathBalance]
    /\ \E mf \in BOOLEAN, ord1 \in KeyOrders, ord2 \in KeyOrders, srv \in Servers :
          last' = PostFlow(c, "PostCurrencyBalance", SuffixBalance, curReq', now,
                           mf, ord1, ord2, srv)
    /\ nonceLog' = IF last'.wire # << >> THEN Logged(nonceLog, curReq'.nonce) ELSE nonceLog
    /\ pc' = "returned"
    /\ UNCHANGED <<c, now, balReq, tr, chk>>

\* The caller has looked at what the call returned and goes on.
CallerProceeds ==
    /\ pc = "returned"
    /\ pc' = "idle"
    /\ last' = NoOutcome
    /\ tr' = NoTransport
    /\ chk' = NoCheck
    /\ UNCHANGED <<c, now, balReq, curReq, nonceLog>>

Next ==
    \/ Tick
    \/ FillBalancesRequest
    \/ FillCurrencyRequest
    \/ PostBalances
    \/ PostCurrencyBalance
    \/ CallerProceeds

Spec == Init /\ [][Next]_vars

\* ------------------------------------------- the transport, called directly

\* The header maps a caller hands to sendPost / sendGet: nil, or at most
\* MaxHdrs of the keys, each with the value "" or "a".
CallerValues == {<< >>, <<97>>}
CallerMaps ==
    {NilMap} \cup
    {Map(f) : f \in UNION {[S -> CallerValues] :
                  S \in {T \in SUBSET HeaderKeys : Cardinality(T) <= MaxHdrs}}}

\* The request bodies handed to sendPost: up to MaxBodyLen bytes of 'a' and 0xff.
BodyBytes == {97, 255}
Bodies == UNION {[1..n -> BodyBytes] : n \in 0..MaxBodyLen}

\* The URLs handed to sendPost / sendGet: one that parses and one that does not.
Urls == {<<baseAPI, "/x">>, <<BadURL>>}

\* What the server does there: sendPost and sendGet leave the body unread.
TransportServers == {NetFailure, Answer(200, BodyOk, TRUE), Answer(302, BodyText, TRUE)}

\* Clients with different credentials: "K" and "S", "K2" and "S2".
InitTransport ==
    /\ c \in {newClientWithURL(baseAPI, <<75>>, <<83>>),
               newClientWithURL(baseAPI, <<75, 50>>, <<83, 50>>)}
    /\ now = FirstNow
    /\ balReq = [request |-> << >>, nonce |-> << >>]
    /\ curReq = [request |-> << >>, nonce |-> << >>, currency |-> << >>]
    /\ pc = "idle"
    /\ last = NoOutcome
    /\ nonceLog = << >>
    /\ tr = NoTransport
    /\ chk = NoCheck

\* What a finished sendPost / sendGet call leaves behind: its arguments, the
\* requests put on the wire, the return values and the map sendRequest added
\* last (the caller's own map, written into, when the caller gave one).
Transported(op, url, args, body, r) ==
    [op |-> op, url |-> url, args |-> args, body |-> body, wire |-> r.wire,
     resp |-> r.resp, err |-> r.err, headers |-> r.headers]

\* c.sendPost(url, additionalHeaders, body), called with any arguments.
SendPostCall ==
    /\ pc = "idle"
    /\ \E url \in Urls, args \in CallerMaps, body \in Bodies, bodyErr \in BOOLEAN,
          ord1 \in KeyOrders, ord2 \in KeyOrders, srv \in TransportServers :
          tr' = Transported("sendPost", url, args, body,
                            sendPost(c, url, args, body, bodyErr, ord1, ord2, srv))
    /\ pc' = "returned"
    /\ UNCHANGED <<c, now, balReq, curReq, last, nonceLog, chk>>

\* c.sendGet(url, additionalHeaders), called with any arguments.
SendGetCall ==
    /\ pc = "idle"
    /\ \E url \in Urls, args \in CallerMaps,
          ord1 \in KeyOrders, ord2 \in KeyOrders, srv \in TransportServers :
          tr' = Transported("sendGet", url, args, << >>,
                            sendGet(c, url, args, ord1, ord2, srv))
    /\ pc' = "returned"
    /\ UNCHANGED <<c, now, balReq, curReq, last, nonceLog, chk>>

NextTransport ==
    \/ SendPostCall
    \/ SendGetCall
    \/ CallerProceeds

SpecTransport == InitTransport /\ [][NextTransport]_vars

\* --------------------------------------------- checkHTTPStatus, called directly

\* The status codes of responses and of expected lists.
StatusCodes == {200, 302, 400}
ExpectedLists == UNION {[1..n -> StatusCodes] : n \in 0..MaxExpected}

\* checkHTTPStatus(resp, expected...), called with any response and list.
CheckStatusCall ==
    /\ pc = "idle"
    /\ \E code \in StatusCodes, expected \in ExpectedLists :
          chk' = [called |-> TRUE, code |-> code, expected |-> expected,
                  err |-> checkHTTPStatus(Resp(code, << >>, TRUE), expected)]
    /\ pc' = "returned"
    /\ UNCHANGED <<c, now, balReq, curReq, last, nonceLog, tr>>

NextStatus ==
    \/ CheckStatusCall
    \/ CallerProceeds

SpecStatus == Init /\ [][NextStatus]_vars

\* ------------------------------------------------------------- properties

Range(s) == {s[i] : i \in DOMAIN s}

\* An endpoint call has returned / has put a request on the wire / the server
\* has answered that request.
Returned == pc = "returned" /\ last.op # "none"
Sent == Returned /\ last.wire # << >>
Answered == Sent /\ last.served.answered

\* "http response status != [200], got <code>"
MismatchText(code) ==
    StatusErrPrefix \o <<91, 50, 48, 48, 93>> \o StatusErrGot \o FormatInt(code)

\* C1: checkHTTPStatus returns no error if and only if the response's status
\* code is one of the expected codes (so with the single expected code 200,
\* iff the status is 200), and the error of a mismatch names the expected
\* codes and ends with the actual code.
C1_StatusIffExpected ==
    chk.called =>
        /\ chk.err.isNil <=> chk.code \in Range(chk.expected)
        /\ chk.expected = <<200>> => (chk.err.isNil <=> chk.code = 200)
        /\ ~chk.err.isNil =>
              /\ \A e \in Range(chk.expected) : Contains(chk.err.text, FormatInt(e))
              /\ Contains(chk.err.text, FormatIntSlice(chk.expected))
              /\ LET t == StatusErrGot \o FormatInt(chk.code)
                 IN SubSeq(chk.err.text, Len(chk.err.text) - Len(t) + 1,
                           Len(chk.err.text)) = t

\* C1 witness: a call that succeeds on the second expected code, not the first.
C1_Witness ==
    /\ chk.called
    /\ chk.err.isNil
    /\ Len(chk.expected) >= 2
    /\ chk.code # chk.expected[1]
    /\ chk.code = chk.expected[2]

\* The error of a status mismatch as the endpoint methods wrap it: the
\* mismatch text and the raw body are both in it.
WrapsStatusAndBody ==
    /\ ~last.err.isNil
    /\ Contains(last.err.text, MismatchText(last.served.status))
    /\ Contains(last.err.text, last.served.body)

\* C2 as stated: whenever the server's status is not 200, the endpoint method
\* returns a nil result and an error holding the status mismatch and the raw
\* body, and has not called json.Unmarshal.
C2_Original ==
    (Answered /\ last.served.status # 200) =>
        /\ last.result.isNil
        /\ ~last.decoded
        /\ WrapsStatusAndBody

\* C2, amended: whenever the server's status is not 200, the endpoint method
\* returns a nil result and an error and has not called json.Unmarshal; the
\* error holds the status mismatch and the raw body when the body was read
\* to its end, and is the read error otherwise.  A typed response is
\* returned only after the status check passed.
C2_NonOKStatusIsError ==
    /\ (Answered /\ last.served.status # 200) =>
          /\ last.result.isNil
          /\ ~last.err.isNil
          /\ ~last.decoded
          /\ last.served.readOk => WrapsStatusAndBody
          /\ ~last.served.readOk => last.err = Err(ErrRead)
    /\ (Returned /\ ~last.result.isNil) =>
          /\ Answered
          /\ last.served.status = 200
          /\ last.err.isNil

\* C2 witness: a 400 answer with the body {"message":"bad nonce"}, read in full.
C2_Witness ==
    /\ Answered
    /\ last.served.status = 400
    /\ last.served.body = BodyBadNonce
    /\ last.served.readOk
    /\ Contains(last.err.text, BadNonce)

\* C3 as stated: the nonces of successive PostCurrencyBalance bodies are
\* pairwise different and do not decrease.
C3_Original ==
    \A i, j \in DOMAIN nonceLog :
        i < j => /\ nonceLog[i] # nonceLog[j]
                 /\ ParseInt(nonceLog[i]) <= ParseInt(nonceLog[j])

\* The literal API path of an endpoint method: "/api/v2/account/balance",
\* and with an "s" for PostBalances.
ApiPathOf(op) ==
    IF op = "PostCurrencyBalance" THEN ApiPathBalance ELSE Append(ApiPathBalance, 115)

\* C4 as stated: the body every endpoint method sends carries the nonce of
\* the current time and the literal API path, whatever the caller's request
\* object held.
C4_Original ==
    Sent =>
        last.wire[1].body =
            Marshal(last.op, [last.request EXCEPT !.nonce = FormatInt(last.at),
                                                  !.request = ApiPathOf(last.op)])

\* The header of the request sendPost / sendGet put on the wire, and the
\* values the caller supplied for a canonical name.
SentHeader == tr.wire[1].header
CallerValuesFor(n) == {tr.args.m[k] : k \in {x \in DOMAIN tr.args.m : Canonical(x) = n}}
\* Every value sent under the name n is one the caller supplied for it.
OnlyCallerValues(n) ==
    /\ n \in DOMAIN SentHeader
    /\ Range(SentHeader[n]) \subseteq CallerValuesFor(n)

\* The keys whose values the transport computes.
ComputedKeys ==
    {HeaderXTxcPayload, HeaderXTxcSignature, HeaderXTxcAPIKey, HeaderContentType, "Content-Type"}

\* C5 as stated: a header the caller supplies to sendPost and the transport
\* computes is sent with the caller's value only.
C5_Original ==
    (tr.op = "sendPost" /\ tr.wire # << >>) =>
        \A k \in DOMAIN tr.args.m \cap ComputedKeys : OnlyCallerValues(Canonical(k))

\* C5, amended: the caller's value wins only for the headers sendRequest
\* merges, X-TXC-APIKEY and Content-type, supplied under that spelling with a
\* non-empty value: then no computed value is sent under the name.  A
\* caller's empty value is joined by the computed one, and X-TXC-PAYLOAD and
\* X-TXC-SIGNATURE are always sent with the computed values, never the
\* caller's.
C5_CallerWinsWhenMerged ==
    (tr.op = "sendPost" /\ tr.wire # << >>) =>
        /\ \A k \in DOMAIN tr.args.m \cap {HeaderXTxcAPIKey, HeaderContentType} :
              /\ tr.args.m[k] # << >> => OnlyCallerValues(Canonical(k))
              /\ tr.args.m[k] = << >> =>
                    (IF k = HeaderXTxcAPIKey THEN c.APIKey ELSE ApplicationJson)
                        \in Range(SentHeader[Canonical(k)])
        /\ Range(SentHeader["X-Txc-Payload"]) = {Base64(tr.body)}
        /\ Range(SentHeader["X-Txc-Signature"]) = {Hex(Hmac(c.APISecret, Base64(tr.body)))}

\* C5 witness: sendPost sent a request for which the caller supplied an API
\* key of its own.
C5_Witness ==
    /\ tr.op = "sendPost"
    /\ tr.wire # << >>
    /\ HeaderXTxcAPIKey \in DOMAIN tr.args.m
    /\ tr.args.m[HeaderXTxcAPIKey] = <<97>>
    /\ c.APIKey # <<97>>

\* The request carries the header k only if the caller supplied it.
OnlyIfSupplied(k) ==
    Canonical(k) \in DOMAIN SentHeader => CallerValuesFor(Canonical(k)) # {}

\* C6 as stated: a GET carries X-TXC-APIKEY, X-TXC-PAYLOAD or X-TXC-SIGNATURE
\* only if the caller supplied that header.
C6_Original ==
    (tr.op = "sendGet" /\ tr.wire # << >>) =>
        \A k \in {HeaderXTxcAPIKey, HeaderXTxcPayload, HeaderXTxcSignature} :
            OnlyIfSupplied(k)

\* C6, amended: a GET carries X-TXC-PAYLOAD or X-TXC-SIGNATURE only if the
\* caller supplied that header; X-TXC-APIKEY is on every GET of a client with
\* credentials, with the client's key unless the caller supplied a non-empty
\* value.
C6_GetIsUnsigned ==
    (tr.op = "sendGet" /\ tr.wire # << >>) =>
        /\ \A k \in {HeaderXTxcPayload, HeaderXTxcSignature} : OnlyIfSupplied(k)
        /\ "X-Txc-Apikey" \in DOMAIN SentHeader
        /\ Get(tr.args.m, HeaderXTxcAPIKey) = << >> =>
              c.APIKey \in Range(SentHeader["X-Txc-Apikey"])

\* C6 witness: a GET sent for a caller that gave no headers at all.
C6_Witness ==
    /\ tr.op = "sendGet"
    /\ tr.wire # << >>
    /\ tr.args.isNil
    /\ SentHeader["X-Txc-Apikey"] = <<c.APIKey>>

\* C7: the authentication headers of a POST are a function of the body bytes
\* and the secret alone: the body sent is the body given, X-TXC-PAYLOAD is
\* its base64 encoding and X-TXC-SIGNATURE the hex HMAC, keyed by the secret,
\* of that base64 string, in the map sendPost hands on and on the wire.
C7_SignatureOfBodyAndSecret ==
    (tr.op = "sendPost" /\ tr.wire # << >>) =>
        LET payload == Base64(tr.body)
            signature == Hex(Hmac(c.APISecret, payload))
        IN /\ tr.wire[1].body = tr.body
           /\ tr.headers.m[HeaderXTxcPayload] = payload
           /\ tr.headers.m[HeaderXTxcSignature] = signature
           /\ payload \in Range(SentHeader["X-Txc-Payload"])
           /\ signature \in Range(SentHeader["X-Txc-Signature"])

\* C7 witness: a POST with the body 'a', 0xff went out with the payload
\* "Yf8=".
C7_Witness ==
    /\ tr.op = "sendPost"
    /\ tr.wire # << >>
    /\ tr.body = <<97, 255>>
    /\ tr.headers.m[HeaderXTxcPayload] = <<89, 102, 56, 61>>

\* C8 as stated: an endpoint call answered with 302 sends exactly one request
\* and returns the status-mismatch error reporting 302.
C8_Original ==
    (Answered /\ last.served.status = 302) =>
        /\ Len(last.wire) = 1
        /\ last.result.isNil
        /\ ~last.err.isNil
        /\ Contains(last.err.text, MismatchText(302))

\* C8, amended: an endpoint call answered with 302 sends exactly one request,
\* none to the Location target, and returns an error: the status-mismatch
\* error reporting 302 when the body of the 302 answer was read to its end,
\* the read error otherwise.
C8_RedirectNotFollowed ==
    (Answered /\ last.served.status = 302) =>
        /\ Len(last.wire) = 1
        /\ last.wire[1].url # LocationURL
        /\ last.status = 302
        /\ last.result.isNil
        /\ ~last.err.isNil
        /\ last.served.readOk => Contains(last.err.text, MismatchText(302))
        /\ ~last.served.readOk => last.err = Err(ErrRead)

\* C8 witness: a 302 answer whose body was read, reported as a mismatch.
C8_Witness ==
    /\ Answered
    /\ last.served.status = 302
    /\ last.served.readOk
    /\ last.stage = "status"

\* C9: an endpoint call puts at most one request on the wire; when
\* json.Marshal or http.NewRequest fails none is sent, when the round trip
\* fails one is, and in all three cases the call returns an error and a nil
\* result.
C9_AtMostOneRequest ==
    Returned =>
        /\ Len(last.wire) <= 1
        /\ last.stage = "marshal" => last.wire = << >>
        /\ c.url = BadURL => last.wire = << >>
        /\ (Sent /\ ~last.served.answered) => Len(last.wire) = 1
        /\ (last.stage = "marshal" \/ c.url = BadURL \/ ~last.served.answered) =>
              (last.result.isNil /\ ~last.err.isNil)

\* C9 witness: a call whose round trip failed after its one request.
C9_Witness ==
    /\ Sent
    /\ ~last.served.answered
    /\ last.err = Err(ErrNet)

\* C10 as stated: every header name of a request an endpoint method sends
\* carries exactly one value.
C10_Original ==
    Sent => \A n \in DOMAIN last.wire[1].header : Len(last.wire[1].header[n]) = 1

====
